---- MODULE Spec2Model ----
(***************************************************************************)
(* Model of the document-analysis backend (src/backend/main.py): the       *)
(* /analyze/ endpoint, get_result and the report renderers; and of the two *)
(* Streamlit front ends (src/experiments/knowlEDGE.py and app.py).         *)
(*                                                                         *)
(* Conventions.                                                            *)
(*  - A Python object is a record.  An attribute whose value is None is a  *)
(*    field the record does not have (IsNone); a list is a sequence.       *)
(*  - A Python str is a sequence of tokens.  The piece an f-string         *)
(*    produces is one token <<label, field, ...>>; "\n" is the token NL;   *)
(*    a decoded character is the token <<"chr", code point>>.              *)
(*  - A call ends in Return(v) or in Raise(e).                             *)
(***************************************************************************)
EXTENDS Integers, Sequences, FiniteSets, TLC

VARIABLES
    environ,          \* os.environ: the configuration variables that are set
    pc,               \* per request: position in analyze_document_content / get_result
    content,          \* per request: the bytes read from the upload
    raised,           \* per request: the exception in flight ("" when none)
    result,           \* per request: the engine's AnalyzeResult
    analysis_result,  \* per request: the list of blocks get_result builds
    next_idx,         \* per request: position of the for loop in progress
    text,             \* per request: the local `text` of the endpoint
    response,         \* per request: the value the endpoint returned
    engine_calls,     \* per request: calls of begin_analyze_document so far
    call,             \* a direct call of one renderer function: name and arguments
    ret,              \* its outcome
    session_state,    \* st.session_state of one browser session of a front end
    script            \* the script run of that session: position, widgets, locals

requestVars == <<environ, pc, content, raised, result, analysis_result,
                 next_idx, text, response, engine_calls>>
callVars == <<call, ret>>
uiVars == <<session_state, script>>
vars == <<environ, pc, content, raised, result, analysis_result,
          next_idx, text, response, engine_calls, call, ret,
          session_state, script>>

------------------------------------------------------------------------------
(* Bounds of the model *)

MaxOffset == 2      \* span offsets 0..MaxOffset in calls of _in_span
MaxLength == 2      \* span lengths 0..MaxLength in calls of _in_span
MaxSpans == 2       \* spans per list in calls of _in_span
MaxStyles == 3      \* styles per result in calls of the classifiers
MaxLines == 2       \* lines per page in calls of analyze_page
MaxWords == 2       \* words per page in calls of analyze_page
MaxMarks == 1       \* selection marks per page in calls of analyze_page
MaxRegions == 1     \* bounding regions per table in calls of analyze_table
MaxCells == 2       \* cells per table in calls of analyze_table
MaxPages == 2       \* pages per result returned to a request
MaxTables == 2      \* tables per result returned to a request

------------------------------------------------------------------------------
(* Python values *)

IsNone(obj, attr) == attr \notin DOMAIN obj

\* `if obj.attr:` for a list-valued attribute: neither None nor empty
Truthy(obj, attr) == attr \in DOMAIN obj /\ obj[attr] # <<>>

\* obj.attr or [] (the list of an attribute that is None is empty)
ListOf(obj, attr) == IF IsNone(obj, attr) THEN <<>> ELSE obj[attr]

NoRet == [pending |-> TRUE]
Return(v) == [value |-> v]
Raise(e) == [raised |-> e]
IsReturn(o) == "value" \in DOMAIN o
IsRaise(o) == "raised" \in DOMAIN o

Range(s) == {s[i] : i \in DOMAIN s}

SeqsUpTo(S, n) == UNION {[1..k -> S] : k \in 0..n}

NL == << <<"\n">> >>

\* sep.join(strs): the strings concatenated with sep between neighbours
RECURSIVE join(_, _)
join(sep, strs) ==
    IF strs = <<>> THEN <<>>
    ELSE IF Len(strs) = 1 THEN strs[1]
    ELSE strs[1] \o sep \o join(sep, Tail(strs))

\* a plausible slip: the index counted from 1
enumerate_from_one(xs) == [i \in DOMAIN xs |-> <<i, xs[i]>>]

\* enumerate(xs): the pairs (0-based index, element) in order
enumerate(xs) == [i \in DOMAIN xs |-> <<i - 1, xs[i]>>]

------------------------------------------------------------------------------
(* Span matching: _in_span, get_words *)

Span(o, l) == [offset |-> o, length |-> l]

\* a plausible slip: the word only has to touch the span
Within_overlap(word, span) ==
    /\ word.span.offset + word.span.length >= span.offset
    /\ word.span.offset <= span.offset + span.length

\* the test of lines 68-70 for one span
Within(word, span) ==
    /\ word.span.offset >= span.offset
    /\ word.span.offset + word.span.length <= span.offset + span.length

\* a plausible slip: the word is tested against the hull of all the spans
_in_span_hull(word, spans) ==
    /\ spans # <<>>
    /\ \E a \in Range(spans) : word.span.offset >= a.offset
    /\ \E b \in Range(spans) :
           word.span.offset + word.span.length <= b.offset + b.length

\* for span in spans: if <test>: return True ... return False
RECURSIVE _in_span(_, _)
_in_span(word, spans) ==
    IF spans = <<>> THEN FALSE
    ELSE IF Within(word, Head(spans)) THEN TRUE
    ELSE _in_span(word, Tail(spans))

\* the loop of lines 89-91 from position i on
RECURSIVE get_words_from(_, _, _)
get_words_from(words, line, i) ==
    IF i > Len(words) THEN <<>>
    ELSE (IF _in_span(words[i], line.spans) THEN <<words[i]>> ELSE <<>>)
             \o get_words_from(words, line, i + 1)

\* a plausible slip: the matching words collected newest first
get_words_reversed(page, line) ==
    IF IsNone(page, "words") THEN Raise("TypeError")
    ELSE LET ws == get_words_from(page.words, line, 1)
         IN  Return([i \in DOMAIN ws |-> ws[Len(ws) + 1 - i]])

\* iterating page.words when it is None raises TypeError
get_words(page, line) ==
    IF IsNone(page, "words") THEN Raise("TypeError")
    ELSE Return(get_words_from(page.words, line, 1))

------------------------------------------------------------------------------
(* Handwriting classification *)

HandwritingPresent == << <<"Document contains handwritten content">> >>
HandwritingAbsent == << <<"Document does not contain handwritten content">> >>

\* the truth value of style.is_handwritten (None is falsy)
IsHandwritten(style) ==
    "is_handwritten" \in DOMAIN style /\ style.is_handwritten

\* any([style.is_handwritten for style in styles])
any_handwritten(styles) == \E i \in DOMAIN styles : IsHandwritten(styles[i])

has_handwritten_content(res) ==
    IF Truthy(res, "styles") /\ any_handwritten(res.styles) THEN TRUE ELSE FALSE

\* a plausible slip: all() where any() is meant
check_handwritten_content_all(res) ==
    IF Truthy(res, "styles") /\ \A i \in DOMAIN res.styles : IsHandwritten(res.styles[i])
    THEN HandwritingPresent
    ELSE HandwritingAbsent

check_handwritten_content(res) ==
    IF Truthy(res, "styles") /\ any_handwritten(res.styles)
    THEN HandwritingPresent
    ELSE HandwritingAbsent

------------------------------------------------------------------------------
(* Page rendering: analyze_page *)

PageHeader(page) ==
    << <<"----Analyzing layout from page #", page.page_number>> >>

PageSize(page) ==
    << <<"Page has width, height, unit", page.width, page.height, page.unit>> >>

LineSummary(line_idx, words, line) ==
    << <<"...Line # has word count, text, polygon",
         line_idx, Len(words), line.content, line.polygon>> >>

WordEntry(word) ==
    << <<"......Word has a confidence of", word.content, word.confidence>> >>

SelectionMarkEntry(selection_mark) ==
    << <<"Selection mark is, polygon, confidence", selection_mark.state,
         selection_mark.polygon, selection_mark.confidence>> >>

\* a plausible slip: a line without matching words is skipped (`if words:`)
RECURSIVE analyze_page_lines_skipping(_, _)
analyze_page_lines_skipping(page, pairs) ==
    IF pairs = <<>> THEN Return(<<>>)
    ELSE LET line_idx == Head(pairs)[1]
             line == Head(pairs)[2]
             words == get_words(page, line)
         IN  IF IsRaise(words) THEN words
             ELSE LET rest == analyze_page_lines_skipping(page, Tail(pairs))
                  IN  IF IsRaise(rest) THEN rest
                      ELSE IF words.value = <<>> THEN rest
                      ELSE Return(<<LineSummary(line_idx, words.value, line)>>
                                  \o [j \in DOMAIN words.value |->
                                         WordEntry(words.value[j])]
                                  \o rest.value)

\* the body of the loop of lines 157-166 over the remaining (line_idx, line)
\* pairs: the entries appended, or the error get_words raised
RECURSIVE analyze_page_lines(_, _)
analyze_page_lines(page, pairs) ==
    IF pairs = <<>> THEN Return(<<>>)
    ELSE LET line_idx == Head(pairs)[1]
             line == Head(pairs)[2]
             words == get_words(page, line)
         IN  IF IsRaise(words) THEN words
             ELSE LET rest == analyze_page_lines(page, Tail(pairs))
                  IN  IF IsRaise(rest) THEN rest
                      ELSE Return(<<LineSummary(line_idx, words.value, line)>>
                                  \o [j \in DOMAIN words.value |->
                                         WordEntry(words.value[j])]
                                  \o rest.value)

\* a plausible slip: the lines are not guarded, an empty page fails on its first line
analyze_page_unguarded(page) ==
    LET lines == IF Truthy(page, "lines")
                 THEN analyze_page_lines(page, enumerate(page.lines))
                 ELSE Raise("IndexError")
        marks == IF Truthy(page, "selection_marks")
                 THEN [k \in DOMAIN page.selection_marks |->
                          SelectionMarkEntry(page.selection_marks[k])]
                 ELSE <<>>
    IN  IF IsRaise(lines) THEN lines
        ELSE Return(join(NL, <<PageHeader(page), PageSize(page)>>
                             \o lines.value \o marks))

analyze_page(page) ==
    LET lines == IF Truthy(page, "lines")
                 THEN analyze_page_lines(page, enumerate(page.lines))
                 ELSE Return(<<>>)
        marks == IF Truthy(page, "selection_marks")
                 THEN [k \in DOMAIN page.selection_marks |->
                          SelectionMarkEntry(page.selection_marks[k])]
                 ELSE <<>>
    IN  IF IsRaise(lines) THEN lines
        ELSE Return(join(NL, <<PageHeader(page), PageSize(page)>>
                             \o lines.value \o marks))

------------------------------------------------------------------------------
(* Table rendering: analyze_table *)

TableSummary(table_idx, table) ==
    << <<"Table # has rows and columns",
         table_idx, table.row_count, table.column_count>> >>

TableLocation(table_idx, region) ==
    << <<"Table # location on page", table_idx, region.page_number,
         region.polygon>> >>

CellEntry(cell) ==
    << <<"...Cell[][] has text", cell.row_index, cell.column_index,
         cell.content>> >>

CellLocation(region) ==
    << <<"...content on page is within bounding polygon", region.page_number,
         region.polygon>> >>

\* lines 188-195 for one cell
analyze_cell(cell) ==
    <<CellEntry(cell)>>
    \o (IF Truthy(cell, "bounding_regions")
        THEN [k \in DOMAIN cell.bounding_regions |->
                 CellLocation(cell.bounding_regions[k])]
        ELSE <<>>)

\* the loop of line 187 over the remaining cells
RECURSIVE analyze_cells(_)
analyze_cells(cells) ==
    IF cells = <<>> THEN <<>>
    ELSE analyze_cell(Head(cells)) \o analyze_cells(Tail(cells))

\* the cells in row-major order (insertion sort on (row_index, column_index))
RECURSIVE RowMajor(_)
RowMajor(cells) ==
    IF cells = <<>> THEN <<>>
    ELSE LET c == Head(cells)
             Before(d) == \/ d.row_index < c.row_index
                          \/ d.row_index = c.row_index
                             /\ d.column_index <= c.column_index
             After(d) == ~Before(d)
             rest == RowMajor(Tail(cells))
         IN  SelectSeq(rest, Before) \o <<c>> \o SelectSeq(rest, After)

\* a plausible slip: the cells are rendered in row-major order
analyze_table_sorted(table_idx, table) ==
    IF IsNone(table, "cells") THEN Raise("TypeError")
    ELSE Return(join(NL,
             <<TableSummary(table_idx, table)>>
             \o (IF Truthy(table, "bounding_regions")
                 THEN [k \in DOMAIN table.bounding_regions |->
                          TableLocation(table_idx, table.bounding_regions[k])]
                 ELSE <<>>)
             \o analyze_cells(RowMajor(table.cells))))

\* iterating table.cells when it is None raises TypeError
analyze_table(table_idx, table) ==
    IF IsNone(table, "cells") THEN Raise("TypeError")
    ELSE Return(join(NL,
             <<TableSummary(table_idx, table)>>
             \o (IF Truthy(table, "bounding_regions")
                 THEN [k \in DOMAIN table.bounding_regions |->
                          TableLocation(table_idx, table.bounding_regions[k])]
                 ELSE <<>>)
             \o analyze_cells(table.cells)))

------------------------------------------------------------------------------
(* Inputs of the direct calls *)

Spans == {Span(o, l) : o \in 0..MaxOffset, l \in 0..MaxLength}

Word(c, sp) == [content |-> c, confidence |-> "0.99", span |-> sp]

\* is_handwritten is an optional bool
Styles ==
    {[is_handwritten |-> b, confidence |-> "0.9"] : b \in BOOLEAN}
        \cup {[confidence |-> "0.9"]}

AnalyzeResult(styles, pages, tables) ==
    [styles |-> styles, pages |-> pages, tables |-> tables]

\* span lists of a line, spans of a word: adjacent, nested, split and empty ranges
LineSpanChoices ==
    {<<>>, <<Span(0, 1)>>, <<Span(1, 1)>>, <<Span(0, 1), Span(2, 1)>>, <<Span(0, 3)>>}
WordSpanChoices == {Span(0, 1), Span(1, 1), Span(1, 0), Span(0, 2)}

LineContents == <<"alpha", "beta", "gamma", "delta">>
WordContents == <<"Hi", "there", "world", "again">>
MarkStates == <<"selected", "unselected", "selected", "unselected">>

LineLists ==
    UNION {{[i \in 1..k |-> [content |-> LineContents[i], polygon |-> "poly",
                             spans |-> f[i]]] : f \in [1..k -> LineSpanChoices]} :
           k \in 0..MaxLines}

WordLists ==
    UNION {{[j \in 1..k |-> Word(WordContents[j], f[j])] :
               f \in [1..k -> WordSpanChoices]} : k \in 0..MaxWords}

MarkLists ==
    {[m \in 1..k |-> [state |-> MarkStates[m], polygon |-> "poly",
                      confidence |-> "0.8"]] : k \in 0..MaxMarks}

Page(lines, words, marks) ==
    [page_number |-> 1, width |-> "8.5", height |-> "11.0", unit |-> "inch",
     lines |-> lines, words |-> words, selection_marks |-> marks]

\* the same page with lines, words or selection_marks None
PageLinesNone(words, marks) ==
    [page_number |-> 1, width |-> "8.5", height |-> "11.0", unit |-> "inch",
     words |-> words, selection_marks |-> marks]
PageWordsNone(lines, marks) ==
    [page_number |-> 1, width |-> "8.5", height |-> "11.0", unit |-> "inch",
     lines |-> lines, selection_marks |-> marks]
PageMarksNone(lines, words) ==
    [page_number |-> 1, width |-> "8.5", height |-> "11.0", unit |-> "inch",
     lines |-> lines, words |-> words]

\* the page of these lists, and the same page with one of them None
PageVariants(lines, words, marks) ==
    {Page(lines, words, marks), PageLinesNone(words, marks),
     PageWordsNone(lines, marks), PageMarksNone(lines, words)}

Regions == {[page_number |-> n, polygon |-> "poly"] : n \in 1..2}

CellRegionChoices ==
    {<<>>, <<[page_number |-> 1, polygon |-> "poly"]>>,
     <<[page_number |-> 2, polygon |-> "poly"], [page_number |-> 1, polygon |-> "poly"]>>}

Cell(row, col, c) == [row_index |-> row, column_index |-> col, content |-> c]

Cells ==
    LET bare == {Cell(0, 0, "A"), Cell(0, 1, "B"), Cell(1, 0, "C")}
    IN  bare \cup {[row_index |-> c.row_index, column_index |-> c.column_index,
                     content |-> c.content, bounding_regions |-> rs] :
                   c \in bare, rs \in CellRegionChoices}

Table(regions, cells) ==
    [row_count |-> 2, column_count |-> 2, bounding_regions |-> regions,
     cells |-> cells]

\* the table of these lists, and the same table with one of them None
TableVariants(regions, cells) ==
    {Table(regions, cells),
     [row_count |-> 2, column_count |-> 2, cells |-> cells],
     [row_count |-> 2, column_count |-> 2, bounding_regions |-> regions]}

------------------------------------------------------------------------------
(* Direct calls of the renderer functions *)

NoCall == [fn |-> "none"]

\* no front end is running
NoSession ==
    /\ session_state = [started |-> FALSE]
    /\ script = [app |-> "none"]

NoRequests ==
    /\ environ = {}
    /\ pc = <<>>
    /\ content = <<>>
    /\ raised = <<>>
    /\ result = <<>>
    /\ analysis_result = <<>>
    /\ next_idx = <<>>
    /\ text = <<>>
    /\ response = <<>>
    /\ engine_calls = <<>>

Call_in_span ==
    /\ call.fn = "_in_span" /\ ret = NoRet
    /\ ret' = Return(_in_span(call.word, call.spans))
    /\ UNCHANGED <<call, requestVars, uiVars>>

Call_has_handwritten_content ==
    /\ call.fn = "has_handwritten_content" /\ ret = NoRet
    /\ ret' = Return(has_handwritten_content(call.result))
    /\ UNCHANGED <<call, requestVars, uiVars>>

Call_check_handwritten_content ==
    /\ call.fn = "check_handwritten_content" /\ ret = NoRet
    /\ ret' = Return(check_handwritten_content(call.result))
    /\ UNCHANGED <<call, requestVars, uiVars>>

Call_analyze_page ==
    /\ call.fn = "analyze_page" /\ ret = NoRet
    /\ ret' = analyze_page(call.page)
    /\ UNCHANGED <<call, requestVars, uiVars>>

Call_analyze_table ==
    /\ call.fn = "analyze_table" /\ ret = NoRet
    /\ ret' = analyze_table(call.table_idx, call.table)
    /\ UNCHANGED <<call, requestVars, uiVars>>

InitSpan ==
    /\ \E sp \in Spans, S \in SeqsUpTo(Spans, MaxSpans) :
           call = [fn |-> "_in_span", word |-> Word("Hi", sp), spans |-> S]
    /\ ret = NoRet /\ NoRequests /\ NoSession
NextSpan == Call_in_span
SpecSpan == InitSpan /\ [][NextSpan]_vars

InitStyles ==
    /\ \E f \in {"has_handwritten_content", "check_handwritten_content"},
          st \in SeqsUpTo(Styles, MaxStyles) :
           \E res \in {AnalyzeResult(st, <<>>, <<>>), [pages |-> <<>>, tables |-> <<>>]} :
               call = [fn |-> f, result |-> res]
    /\ ret = NoRet /\ NoRequests /\ NoSession
NextStyles == Call_has_handwritten_content \/ Call_check_handwritten_content
SpecStyles == InitStyles /\ [][NextStyles]_vars

InitPage ==
    /\ \E l \in LineLists, w \in WordLists, m \in MarkLists :
           \E p \in PageVariants(l, w, m) : call = [fn |-> "analyze_page", page |-> p]
    /\ ret = NoRet /\ NoRequests /\ NoSession
NextPage == Call_analyze_page
SpecPage == InitPage /\ [][NextPage]_vars

InitTable ==
    /\ \E i \in 0..(MaxTables - 1), rs \in SeqsUpTo(Regions, MaxRegions),
          cs \in SeqsUpTo(Cells, MaxCells) :
           \E t \in TableVariants(rs, cs) :
               call = [fn |-> "analyze_table", table_idx |-> i, table |-> t]
    /\ ret = NoRet /\ NoRequests /\ NoSession
NextTable == Call_analyze_table
SpecTable == InitTable /\ [][NextTable]_vars

------------------------------------------------------------------------------
(* The /analyze/ endpoint: analyze_document_content and get_result *)

PreviewLen == 300

EnvNames == {"AZURE_DOCUMENT_ANALYSIS_ENDPOINT", "AZURE_DOCUMENT_ANALYSIS_KEY"}

\* what the engine call can raise: the engine's own failures
EngineErrors ==
    {"AuthenticationFailure", "MalformedDocument", "RateLimited", "ServiceUnavailable"}

\* everything that can come out of line 41-42 as an exception
CallErrors == EngineErrors \cup {"UnicodeDecodeError"}

NoResult == [pending |-> TRUE]

\* uploads: empty, short and longer than the preview, of ASCII 'A' (valid UTF-8)
\* and of byte 0xE9 (not valid UTF-8 on its own)
SampleContents ==
    {[i \in 1..n |-> b] : n \in {0, 2, PreviewLen + 1}, b \in {65, 233}}

EmptyPage == Page(<<>>, <<>>, <<>>)
TextPage ==
    Page(<<[content |-> "alpha", polygon |-> "poly", spans |-> <<Span(0, 2)>>],
           [content |-> "beta", polygon |-> "poly", spans |-> <<>>]>>,
         <<Word("Hi", Span(0, 2))>>,
         <<[state |-> "selected", polygon |-> "poly", confidence |-> "0.8"]>>)
\* a page with a line whose words attribute is None
BrokenPage ==
    PageWordsNone(<<[content |-> "alpha", polygon |-> "poly", spans |-> <<>>]>>, <<>>)
SamplePages == {EmptyPage, TextPage, BrokenPage}

EmptyTable == [row_count |-> 0, column_count |-> 0, bounding_regions |-> <<>>,
               cells |-> <<>>]
CellTable ==
    [row_count |-> 1, column_count |-> 2,
     bounding_regions |-> <<[page_number |-> 1, polygon |-> "poly"]>>,
     cells |-> <<[row_index |-> 0, column_index |-> 1, content |-> "B",
                  bounding_regions |-> <<>>],
                 [row_index |-> 0, column_index |-> 0, content |-> "A",
                  bounding_regions |-> <<[page_number |-> 1, polygon |-> "poly"]>>]>>]
\* a table whose cells attribute is None
BrokenTable == [row_count |-> 0, column_count |-> 0, bounding_regions |-> <<>>]
SampleTables == {EmptyTable, CellTable, BrokenTable}

SampleStyleLists ==
    {<<>>, <<[is_handwritten |-> FALSE, confidence |-> "0.9"]>>,
     <<[is_handwritten |-> FALSE, confidence |-> "0.9"],
       [is_handwritten |-> TRUE, confidence |-> "0.9"]>>}

\* the result of these lists, and the same result with one of them None
ResultVariants(styles, pages, tables) ==
    {AnalyzeResult(styles, pages, tables),
     [pages |-> pages, tables |-> tables],
     [styles |-> styles, tables |-> tables],
     [styles |-> styles, pages |-> pages]}

\* bytes.decode('latin-1'): every byte is the character of the same code point
latin_1_decode(bytes) == [i \in DOMAIN bytes |-> <<"chr", bytes[i]>>]

\* s[:n]
Slice(s, n) == SubSeq(s, 1, IF Len(s) < n THEN Len(s) ELSE n)

\* a plausible slip: the preview is not truncated
decode_preview_untruncated(bytes) == latin_1_decode(bytes)

\* content.decode('latin-1')[:300]
decode_preview(bytes) == Slice(latin_1_decode(bytes), PreviewLen)

\* the byte at position k exists and is a continuation byte (10xxxxxx)
Utf8Continuation(b, k) == k <= Len(b) /\ b[k] >= 128 /\ b[k] <= 191

\* the number of continuation bytes the lead byte c announces; -1: not a lead
Utf8Following(c) ==
    IF c <= 127 THEN 0
    ELSE IF c >= 194 /\ c <= 223 THEN 1
    ELSE IF c >= 224 /\ c <= 239 THEN 2
    ELSE IF c >= 240 /\ c <= 244 THEN 3
    ELSE -1

\* bytes.decode('utf-8') succeeds: the bytes split into well-formed sequences,
\* each a lead byte with exactly the continuation bytes it announces, without
\* overlong forms, surrogates or code points above U+10FFFF
Utf8Valid(b) ==
    /\ ~Utf8Continuation(b, 1)
    /\ \A i \in DOMAIN b :
          Utf8Continuation(b, i) \/
              LET c == b[i]
                  n == Utf8Following(c)
              IN  /\ n >= 0
                  /\ \A k \in (i + 1)..(i + n) : Utf8Continuation(b, k)
                  /\ ~Utf8Continuation(b, i + n + 1)
                  /\ (c = 224 => b[i + 1] >= 160)
                  /\ (c = 237 => b[i + 1] <= 159)
                  /\ (c = 240 => b[i + 1] >= 144)
                  /\ (c = 244 => b[i + 1] <= 143)

Requests == DOMAIN pc

InitRequests(ids) ==
    /\ environ \in SUBSET EnvNames
    /\ pc = [r \in ids |-> "read"]
    /\ content = [r \in ids |-> <<>>]
    /\ raised = [r \in ids |-> ""]
    /\ result = [r \in ids |-> NoResult]
    /\ analysis_result = [r \in ids |-> <<>>]
    /\ next_idx = [r \in ids |-> 0]
    /\ text = [r \in ids |-> <<>>]
    /\ response = [r \in ids |-> NoRet]
    /\ engine_calls = [r \in ids |-> 0]
    /\ call = NoCall
    /\ ret = NoRet
    /\ NoSession

\* an exception leaves get_result: control is at the except clause of line 22
RaiseFromGetResult(r, e) ==
    /\ raised' = [raised EXCEPT ![r] = e]
    /\ pc' = [pc EXCEPT ![r] = "except"]

\* line 19: content = await file.read()
ReadFile(r) ==
    /\ pc[r] = "read"
    /\ \E bytes \in SampleContents : content' = [content EXCEPT ![r] = bytes]
    /\ pc' = [pc EXCEPT ![r] = "create_client"]
    /\ UNCHANGED <<environ, raised, result, analysis_result, next_idx, text,
                   response, engine_calls, callVars, uiVars>>

\* lines 34-40: the settings are read and the client is built; AzureKeyCredential
\* rejects a key that is None, the client an endpoint that is None
CreateClient(r) ==
    /\ pc[r] = "create_client"
    /\ IF "AZURE_DOCUMENT_ANALYSIS_KEY" \notin environ
       THEN RaiseFromGetResult(r, "TypeError")
       ELSE IF "AZURE_DOCUMENT_ANALYSIS_ENDPOINT" \notin environ
       THEN RaiseFromGetResult(r, "ValueError")
       ELSE /\ pc' = [pc EXCEPT ![r] = "begin_analyze_document"]
            /\ UNCHANGED raised
    /\ UNCHANGED <<environ, content, result, analysis_result, next_idx, text,
                   response, engine_calls, callVars, uiVars>>

\* lines 41-42: the engine is called and answers with a result
EngineReturns(r) ==
    /\ pc[r] = "begin_analyze_document"
    /\ engine_calls' = [engine_calls EXCEPT ![r] = @ + 1]
    /\ \E st \in SampleStyleLists, ps \in SeqsUpTo(SamplePages, MaxPages),
          ts \in SeqsUpTo(SampleTables, MaxTables) :
           \E res \in ResultVariants(st, ps, ts) :
               result' = [result EXCEPT ![r] = res]
    /\ pc' = [pc EXCEPT ![r] = "check_handwritten_content"]
    /\ UNCHANGED <<environ, content, raised, analysis_result, next_idx, text,
                   response, callVars, uiVars>>

\* a plausible slip: a failed engine call is tried again (up to three calls)
EngineRaises_retried(r) ==
    /\ pc[r] = "begin_analyze_document"
    /\ engine_calls[r] < 3
    /\ engine_calls' = [engine_calls EXCEPT ![r] = @ + 1]
    /\ UNCHANGED <<environ, pc, content, raised, result, analysis_result, next_idx,
                   text, response, callVars, uiVars>>

\* lines 41-42: the engine is called and the call raises
EngineRaises(r) ==
    /\ pc[r] = "begin_analyze_document"
    /\ engine_calls' = [engine_calls EXCEPT ![r] = @ + 1]
    /\ \E e \in CallErrors : RaiseFromGetResult(r, e)
    /\ UNCHANGED <<environ, content, result, analysis_result, next_idx, text,
                   response, callVars, uiVars>>

\* a plausible slip: the handwriting sentence is left out of the list
CheckHandwritten_skipped(r) ==
    /\ pc[r] = "check_handwritten_content"
    /\ analysis_result' = [analysis_result EXCEPT ![r] = <<>>]
    /\ next_idx' = [next_idx EXCEPT ![r] = 1]
    /\ pc' = [pc EXCEPT ![r] = "for_pages"]
    /\ UNCHANGED <<environ, content, raised, result, text, response,
                   engine_calls, callVars, uiVars>>

\* lines 44-46: analysis_result = [check_handwritten_content(result)]
CheckHandwritten(r) ==
    /\ pc[r] = "check_handwritten_content"
    /\ analysis_result' =
           [analysis_result EXCEPT ![r] = <<check_handwritten_content(result[r])>>]
    /\ next_idx' = [next_idx EXCEPT ![r] = 1]
    /\ pc' = [pc EXCEPT ![r] = "for_pages"]
    /\ UNCHANGED <<environ, content, raised, result, text, response,
                   engine_calls, callVars, uiVars>>

\* lines 47-48: one step of `for page in result.pages`: the next page is rendered
\* and appended, or the loop ends, or the step raises
ForPages(r) ==
    /\ pc[r] = "for_pages"
    /\ IF IsNone(result[r], "pages")
       THEN /\ RaiseFromGetResult(r, "TypeError")
            /\ UNCHANGED <<analysis_result, next_idx>>
       ELSE IF next_idx[r] > Len(result[r].pages)
       THEN /\ pc' = [pc EXCEPT ![r] = "for_tables"]
            /\ next_idx' = [next_idx EXCEPT ![r] = 1]
            /\ UNCHANGED <<analysis_result, raised>>
       ELSE LET block == analyze_page(result[r].pages[next_idx[r]])
            IN  IF IsRaise(block)
                THEN /\ RaiseFromGetResult(r, block.raised)
                     /\ UNCHANGED <<analysis_result, next_idx>>
                ELSE /\ analysis_result' =
                            [analysis_result EXCEPT ![r] = Append(@, block.value)]
                     /\ next_idx' = [next_idx EXCEPT ![r] = @ + 1]
                     /\ UNCHANGED <<pc, raised>>
    /\ UNCHANGED <<environ, content, result, text, response, engine_calls, callVars, uiVars>>

\* lines 49-50: one step of `for table_idx, table in enumerate(result.tables)`
ForTables(r) ==
    /\ pc[r] = "for_tables"
    /\ IF IsNone(result[r], "tables")
       THEN /\ RaiseFromGetResult(r, "TypeError")
            /\ UNCHANGED <<analysis_result, next_idx>>
       ELSE IF next_idx[r] > Len(result[r].tables)
       THEN /\ pc' = [pc EXCEPT ![r] = "join"]
            /\ UNCHANGED <<analysis_result, raised, next_idx>>
       ELSE LET pair == enumerate(result[r].tables)[next_idx[r]]
                block == analyze_table(pair[1], pair[2])
            IN  IF IsRaise(block)
                THEN /\ RaiseFromGetResult(r, block.raised)
                     /\ UNCHANGED <<analysis_result, next_idx>>
                ELSE /\ analysis_result' =
                            [analysis_result EXCEPT ![r] = Append(@, block.value)]
                     /\ next_idx' = [next_idx EXCEPT ![r] = @ + 1]
                     /\ UNCHANGED <<pc, raised>>
    /\ UNCHANGED <<environ, content, result, text, response, engine_calls, callVars, uiVars>>

\* a plausible slip: analysis_result is one module-level list that every
\* request appends to, so the join takes the blocks of all requests
RECURSIVE BlocksOfAll(_)
BlocksOfAll(n) ==
    IF n = 0 THEN <<>>
    ELSE BlocksOfAll(n - 1) \o (IF n \in Requests THEN analysis_result[n] ELSE <<>>)

JoinReport_shared(r) ==
    /\ pc[r] = "join"
    /\ text' = [text EXCEPT ![r] = join(NL, BlocksOfAll(Cardinality(Requests)))]
    /\ pc' = [pc EXCEPT ![r] = "return"]
    /\ UNCHANGED <<environ, content, raised, result, analysis_result, next_idx,
                   response, engine_calls, callVars, uiVars>>

\* line 52 and line 21: text = "\n".join(analysis_result)
JoinReport(r) ==
    /\ pc[r] = "join"
    /\ text' = [text EXCEPT ![r] = join(NL, analysis_result[r])]
    /\ pc' = [pc EXCEPT ![r] = "return"]
    /\ UNCHANGED <<environ, content, raised, result, analysis_result, next_idx,
                   response, engine_calls, callVars, uiVars>>

\* a plausible slip: `except Exception:` where `except UnicodeDecodeError:` is meant
Except_all(r) ==
    /\ pc[r] = "except"
    /\ text' = [text EXCEPT ![r] = decode_preview(content[r])]
    /\ pc' = [pc EXCEPT ![r] = "return"]
    /\ UNCHANGED <<environ, content, raised, result, analysis_result, next_idx,
                   response, engine_calls, callVars, uiVars>>

\* lines 22-23: a UnicodeDecodeError is caught and replaced by the preview; any
\* other exception leaves the endpoint
Except(r) ==
    /\ pc[r] = "except"
    /\ IF raised[r] = "UnicodeDecodeError"
       THEN /\ text' = [text EXCEPT ![r] = decode_preview(content[r])]
            /\ pc' = [pc EXCEPT ![r] = "return"]
       ELSE /\ pc' = [pc EXCEPT ![r] = "failed"]
            /\ UNCHANGED text
    /\ UNCHANGED <<environ, content, raised, result, analysis_result, next_idx,
                   response, engine_calls, callVars, uiVars>>

\* line 24: return {"text": text}
ReturnText(r) ==
    /\ pc[r] = "return"
    /\ response' = [response EXCEPT ![r] = Return([text |-> text[r]])]
    /\ pc' = [pc EXCEPT ![r] = "done"]
    /\ UNCHANGED <<environ, content, raised, result, analysis_result, next_idx,
                   text, engine_calls, callVars, uiVars>>

Init == InitRequests({1})

Next ==
    \/ \E r \in Requests : ReadFile(r)
    \/ \E r \in Requests : CreateClient(r)
    \/ \E r \in Requests : EngineReturns(r)
    \/ \E r \in Requests : EngineRaises(r)
    \/ \E r \in Requests : CheckHandwritten(r)
    \/ \E r \in Requests : ForPages(r)
    \/ \E r \in Requests : ForTables(r)
    \/ \E r \in Requests : JoinReport(r)
    \/ \E r \in Requests : Except(r)
    \/ \E r \in Requests : ReturnText(r)

Spec == Init /\ [][Next]_vars

------------------------------------------------------------------------------
(* Concurrent requests: the endpoint serves several uploads at once.  Every   *)
(* name of analyze_document_content and get_result is a local of the call, so *)
(* each request has its own; os.environ is the one object they share.         *)

ConcurrentRequests == {1, 2}

\* results the engine returns to concurrent requests: an empty one, two with
\* pages and tables, and one whose page makes the renderer raise
ConcurrentResults ==
    {AnalyzeResult(<<>>, <<>>, <<>>),
     AnalyzeResult(<<[is_handwritten |-> TRUE, confidence |-> "0.9"]>>,
                   <<TextPage>>, <<CellTable>>),
     AnalyzeResult(<<>>, <<EmptyPage, TextPage>>, <<EmptyTable>>),
     AnalyzeResult(<<>>, <<BrokenPage>>, <<>>)}

\* lines 41-42: the engine is called and answers with one of these results
EngineReturnsSample(r) ==
    /\ pc[r] = "begin_analyze_document"
    /\ engine_calls' = [engine_calls EXCEPT ![r] = @ + 1]
    /\ \E res \in ConcurrentResults : result' = [result EXCEPT ![r] = res]
    /\ pc' = [pc EXCEPT ![r] = "check_handwritten_content"]
    /\ UNCHANGED <<environ, content, raised, analysis_result, next_idx, text,
                   response, callVars, uiVars>>

InitConcurrent == InitRequests(ConcurrentRequests)

NextConcurrent ==
    \/ \E r \in Requests : ReadFile(r)
    \/ \E r \in Requests : CreateClient(r)
    \/ \E r \in Requests : EngineReturnsSample(r)
    \/ \E r \in Requests : EngineRaises(r)
    \/ \E r \in Requests : CheckHandwritten(r)
    \/ \E r \in Requests : ForPages(r)
    \/ \E r \in Requests : ForTables(r)
    \/ \E r \in Requests : JoinReport(r)
    \/ \E r \in Requests : Except(r)
    \/ \E r \in Requests : ReturnText(r)

SpecConcurrent == InitConcurrent /\ [][NextConcurrent]_vars

------------------------------------------------------------------------------
(* The front ends: values shared by knowlEDGE.py and app.py *)

MaxMessages == 4    \* chat messages kept in a session

\* obj.attr = v, and obj.attr = None
SetAttr(obj, attr, v) == [a \in DOMAIN obj \cup {attr} |-> IF a = attr THEN v ELSE obj[a]]
SetNone(obj, attr) == [a \in DOMAIN obj \ {attr} |-> obj[a]]

\* a function that returns None, and one that returns a value
NoneValue == [none |-> TRUE]
IsNoneValue(o) == "none" \in DOMAIN o

\* a short str: one token
Str(label) == << <<label>> >>

\* bytes.decode('utf-8') of valid bytes: one character per well-formed sequence
RECURSIVE utf_8_decode_from(_, _)
utf_8_decode_from(b, i) ==
    IF i > Len(b) THEN <<>>
    ELSE LET c == b[i]
             n == Utf8Following(c)
             low(k) == b[i + k] - 128
             code == IF n = 0 THEN c
                     ELSE IF n = 1 THEN (c - 192) * 64 + low(1)
                     ELSE IF n = 2 THEN (c - 224) * 4096 + low(1) * 64 + low(2)
                     ELSE (c - 240) * 262144 + low(1) * 4096 + low(2) * 64 + low(3)
         IN  << <<"chr", code>> >> \o utf_8_decode_from(b, i + n + 1)

utf_8_decode(b) == utf_8_decode_from(b, 1)

UploadedFile(name, type, bytes) == [name |-> name, type |-> type, bytes |-> bytes]

PdfType == "application/pdf"
DocxType == "application/vnd.openxmlformats-officedocument.wordprocessingml.document"
TxtType == "text/plain"

\* the uploads of a session: two text files of the same name and a text file
\* that is not valid UTF-8
SampleFiles ==
    {UploadedFile("a.txt", TxtType, <<72, 105>>),
     UploadedFile("a.txt", TxtType, <<195, 169>>),
     UploadedFile("b.txt", TxtType, <<233>>)}

\* the file starts with the signature the reader of its format looks for
HasSignature(bytes, sig) == Len(bytes) >= Len(sig) /\ SubSeq(bytes, 1, Len(sig)) = sig

\* a chat message (the timestamp, which no code reads, is left out)
Message(role, msg_content) == [role |-> role, content |-> msg_content]

\* a generator stream: the responses it yields, and whether it then raises
Stream(chunks, raises) == [chunks |-> chunks, raises |-> raises]

\* what the user types into the chat input
SamplePrompts == {Str("P1")}

------------------------------------------------------------------------------
(* The front end of knowlEDGE.py *)

\* extract_text: the text of the file, or None when the type is not supported
\* or the reader or the decoder raises
extract_text(uploaded_file_name, uploaded_file_type, uploaded_file_bytes) ==
    IF uploaded_file_type = PdfType
    THEN IF HasSignature(uploaded_file_bytes, <<37, 80, 68, 70>>)
         THEN Return(<< <<"pdf text", uploaded_file_bytes>> >>)
         ELSE NoneValue
    ELSE IF uploaded_file_type = DocxType
    THEN IF HasSignature(uploaded_file_bytes, <<80, 75>>)
         THEN Return(<< <<"docx text", uploaded_file_bytes>> >>)
         ELSE NoneValue
    ELSE IF uploaded_file_type = TxtType
    THEN IF Utf8Valid(uploaded_file_bytes)
         THEN Return(utf_8_decode(uploaded_file_bytes))
         ELSE NoneValue
    ELSE NoneValue

\* chunks of a chat stream about a subject: at each position the piece of
\* text of that position, an empty piece, or a chunk without 'content'
ChatChunk(piece) == [message |-> [role |-> "assistant", content |-> piece]]
ChatChunkBare == [message |-> [role |-> "assistant"]]

RECURSIVE full_response_from(_, _)
full_response_from(chunks, i) ==
    IF i > Len(chunks) THEN <<>>
    ELSE (IF "content" \in DOMAIN chunks[i].message
          THEN chunks[i].message.content ELSE <<>>)
         \o full_response_from(chunks, i + 1)

\* stream_summary_from_ollama and stream_answer_from_document: the pieces of
\* the stream put together, or None when chat or the stream raises
stream_summary_from_ollama(stream) ==
    IF stream.raises THEN NoneValue ELSE Return(full_response_from(stream.chunks, 1))

stream_answer_from_document(stream) ==
    IF stream.raises THEN NoneValue ELSE Return(full_response_from(stream.chunks, 1))

\* get_suggested_questions: the non-blank lines of the response, padded with
\* blanks to three and cut to three; three blanks when chat raises
get_suggested_questions(reply) ==
    IF IsRaise(reply) THEN <<<<>>, <<>>, <<>>>>
    ELSE Slice(SelectSeq(reply.value, LAMBDA q : q # <<>>) \o <<<<>>, <<>>, <<>>>>, 3)

\* replies of the model to the request for questions: lines, or an error
SampleQuestionReplies ==
    {Return(<<Str("Q1"), <<>>, Str("Q2")>>),
     Raise("ResponseError")}

\* initialize_session_state: the keys that are missing get their initial
\* value (a key whose initial value is None stays absent)
initialize_session_state(ss) ==
    [started |-> TRUE,
     messages |-> IF "messages" \in DOMAIN ss THEN ss.messages ELSE <<>>,
     summary_generated |->
         IF "summary_generated" \in DOMAIN ss THEN ss.summary_generated ELSE FALSE,
     needs_answer |-> IF "needs_answer" \in DOMAIN ss THEN ss.needs_answer ELSE FALSE]
    @@ ss

\* the uploaded file is not the file the session has recorded
IsNewFile(ss, uploaded_file) ==
    \/ IsNone(ss, "current_file_name") \/ uploaded_file.name # ss.current_file_name
    \/ IsNone(ss, "current_file_type") \/ uploaded_file.type # ss.current_file_type
    \/ IsNone(ss, "current_file_bytes") \/ uploaded_file.bytes # ss.current_file_bytes

RecordFile(ss, uploaded_file) ==
    SetAttr(SetAttr(SetAttr(ss, "current_file_name", uploaded_file.name),
                    "current_file_type", uploaded_file.type),
            "current_file_bytes", uploaded_file.bytes)

\* lines 163-167
ResetForDocument(ss, document_text) ==
    [SetNone(SetNone(SetAttr(ss, "document_text", document_text), "summary"),
             "suggested_questions")
        EXCEPT !.summary_generated = FALSE, !.messages = <<>>]

\* handle_file_upload
handle_file_upload(ss, widgets) ==
    IF IsNone(widgets, "uploaded_file") THEN ss
    ELSE LET uploaded_file == widgets.uploaded_file
         IN  IF ~IsNewFile(ss, uploaded_file) THEN ss
             ELSE LET document_text == extract_text(uploaded_file.name, uploaded_file.type,
                                                    uploaded_file.bytes)
                  IN  IF IsNoneValue(document_text)
                      THEN RecordFile(ss, uploaded_file)
                      ELSE ResetForDocument(RecordFile(ss, uploaded_file),
                                            document_text.value)

\* display_text_and_summary (what it shows leaves no trace in the session)
display_text_and_summary(ss, stream) ==
    IF ~ss.summary_generated
    THEN LET summary == stream_summary_from_ollama(stream)
         IN  [(IF IsNoneValue(summary) THEN SetNone(ss, "summary")
               ELSE SetAttr(ss, "summary", summary.value))
                 EXCEPT !.summary_generated = TRUE]
    ELSE ss

handle_suggested_question(ss, question) ==
    [SetAttr(ss, "current_question", question) EXCEPT !.needs_answer = TRUE]

\* display_suggested_questions; clicked is the index of the button that was
\* clicked to start this run, -1 when none was
display_suggested_questions(ss, reply, clicked) ==
    LET ss1 == IF IsNone(ss, "suggested_questions")
               THEN SetAttr(ss, "suggested_questions", get_suggested_questions(reply))
               ELSE ss
        questions == ss1.suggested_questions
    IN  IF clicked \in 0..(Len(questions) - 1) /\ questions[clicked + 1] # <<>>
        THEN handle_suggested_question(ss1, questions[clicked + 1])
        ELSE ss1

\* lines 233-256 and 265-287: the question is recorded, answered, and the
\* answer recorded when there is one
AskDocument(messages, question, stream) ==
    LET answer == stream_answer_from_document(stream)
        asked == Append(messages, Message("user", question))
    IN  IF ~IsNoneValue(answer) /\ answer.value # <<>>
        THEN Append(asked, Message("assistant", answer.value))
        ELSE asked

\* handle_chat_interaction: the session it leaves, whether it ends in
\* st.rerun(), and the question it handled with the stream that answered it
handle_chat_interaction(ss, prompt, stream) ==
    IF ss.needs_answer /\ Truthy(ss, "current_question")
    THEN [session |->
              SetNone([ss EXCEPT !.messages =
                                     AskDocument(@, ss.current_question, stream),
                                 !.needs_answer = FALSE],
                      "current_question"),
          rerun |-> TRUE, question |-> ss.current_question, stream |-> stream]
    ELSE IF prompt # <<>>
    THEN [session |-> [ss EXCEPT !.messages = AskDocument(@, prompt, stream)],
          rerun |-> FALSE, question |-> prompt, stream |-> stream]
    ELSE [session |-> ss, rerun |-> FALSE]

\* the text the model writes about a subject, piece k
Piece(subject, k) == << <<"text", subject, k>> >>

\* chat streams about a subject: text in two chunks around a chunk without
\* 'content'; a stream of one empty chunk; a stream that raises after its
\* first chunk; a call of chat that raises
KnowlEdgeStreams(subject) ==
    {Stream(<<ChatChunk(Piece(subject, 1)), ChatChunkBare,
              ChatChunk(Piece(subject, 2))>>, FALSE),
     Stream(<<ChatChunk(<<>>)>>, FALSE),
     Stream(<<ChatChunk(Piece(subject, 1))>>, TRUE),
     Stream(<<>>, TRUE)}

------------------------------------------------------------------------------
(* The front end of app.py.  DocumentProcessor and OllamaService are not in  *)
(* the sources: the processor is its attributes as app.py reads and writes   *)
(* them, a generator of the service is the stream of responses it yields.    *)

MaxUpdateCounter == 3   \* largest update_counter a session reaches

\* a response a generator yields
Chunk(piece) == [is_error |-> FALSE, content |-> piece]
ErrorResponse == [is_error |-> TRUE, error_message |-> "model error"]

\* streams of a generator about a subject: text in two responses; one empty
\* response; an error response after a first piece; a generator that raises
\* after a first piece; a generator that yields nothing
AppStreams(subject) ==
    {Stream(<<Chunk(Piece(subject, 1)), Chunk(Piece(subject, 2))>>, FALSE),
     Stream(<<Chunk(<<>>)>>, FALSE),
     Stream(<<Chunk(Piece(subject, 1)), ErrorResponse>>, FALSE),
     Stream(<<Chunk(Piece(subject, 1))>>, TRUE),
     Stream(<<>>, FALSE)}

\* a new DocumentProcessor
DocumentProcessor == [messages |-> <<>>]

\* processor.process_new_document: the text of the file is extracted and the
\* attributes start afresh, or the call raises and leaves the processor alone
processor_process_new_document(processor, file_name, file_type, file_bytes) ==
    LET document_text == extract_text(file_name, file_type, file_bytes)
    IN  IF IsNoneValue(document_text) THEN Raise("ValueError")
        ELSE Return([document_text |-> document_text.value, messages |-> <<>>])

\* the for loop of lines 86-101 and 181-191: the responses before the first
\* error response are put together; the loop ends by break ("error"), by
\* exhausting the generator ("completed"), or by the generator raising
RECURSIVE consume(_, _, _)
consume(stream, i, full_response) ==
    IF i > Len(stream.chunks)
    THEN [full_response |-> full_response, yielded |-> i - 1,
          ends |-> IF stream.raises THEN "raised" ELSE "completed"]
    ELSE IF stream.chunks[i].is_error
    THEN [full_response |-> full_response, yielded |-> i, ends |-> "error"]
    ELSE consume(stream, i + 1, full_response \o stream.chunks[i].content)

\* `if not response.is_error:` after the loop finds response unbound when the
\* generator has yielded nothing
UnboundResponse(loop) == loop.ends = "completed" /\ loop.yielded = 0

KnowlEdgeApp_initialize_session_state(ss) ==
    [started |-> TRUE,
     processor |-> IF "processor" \in DOMAIN ss THEN ss.processor ELSE DocumentProcessor,
     needs_answer |-> IF "needs_answer" \in DOMAIN ss THEN ss.needs_answer ELSE FALSE,
     summary_in_progress |->
         IF "summary_in_progress" \in DOMAIN ss THEN ss.summary_in_progress ELSE FALSE,
     update_counter |->
         IF "update_counter" \in DOMAIN ss THEN ss.update_counter ELSE 0]
    @@ ss

\* process_new_document
KnowlEdgeApp_process_new_document(ss, file_name, file_type, file_bytes) ==
    LET processed == processor_process_new_document(ss.processor, file_name,
                                                    file_type, file_bytes)
    IN  IF IsRaise(processed) THEN ss
        ELSE [SetAttr(ss, "uploaded_file_name", file_name)
                 EXCEPT !.processor = processed.value,
                        !.update_counter = 0,
                        !.summary_in_progress = FALSE]

\* handle_file_upload, called when a file is in the uploader (line 303)
KnowlEdgeApp_handle_file_upload(ss, widgets) ==
    IF IsNone(widgets, "uploaded_file") THEN ss
    ELSE LET uploaded_file == widgets.uploaded_file
         IN  IF IsNone(ss, "uploaded_file_name")
                \/ uploaded_file.name # ss.uploaded_file_name
             THEN KnowlEdgeApp_process_new_document(ss, uploaded_file.name,
                                                    uploaded_file.type, uploaded_file.bytes)
             ELSE ss

\* ollama_service._estimate_tokens
_estimate_tokens(document_text) == Len(document_text)

\* lines 60-64
EstimateTokens(processor) ==
    IF IsNone(processor, "token_count") /\ Truthy(processor, "document_text")
    THEN SetAttr(processor, "token_count", _estimate_tokens(processor.document_text))
    ELSE processor

\* a plausible slip: the flag is reset after the loop, not in a `finally`
generate_summary_no_finally(ss, stream) ==
    LET loop == consume(stream, 1, <<>>)
        streaming == [ss EXCEPT !.summary_in_progress = TRUE,
                                !.update_counter =
                                    @ + (IF loop.ends = "error" THEN loop.yielded - 1
                                         ELSE loop.yielded)]
    IN  IF loop.ends = "raised" \/ UnboundResponse(loop)
        THEN [session |-> streaming, left_by |-> "exception"]
        ELSE IF loop.ends = "error"
        THEN [session |-> [streaming EXCEPT !.summary_in_progress = FALSE],
              left_by |-> "return"]
        ELSE [session |->
                  [streaming EXCEPT !.processor = SetAttr(@, "summary", loop.full_response),
                                    !.summary_in_progress = FALSE],
              left_by |-> "return"]

\* lines 80-106, the generation branch of display_text_and_summary: the
\* session it leaves and whether an exception leaves it
generate_summary(ss, stream) ==
    LET loop == consume(stream, 1, <<>>)
        streaming == [ss EXCEPT !.summary_in_progress = TRUE,
                                !.update_counter =
                                    @ + (IF loop.ends = "error" THEN loop.yielded - 1
                                         ELSE loop.yielded)]
        finally(state) == [state EXCEPT !.summary_in_progress = FALSE]
    IN  IF loop.ends = "raised" \/ UnboundResponse(loop)
        THEN [session |-> finally(streaming), left_by |-> "exception"]
        ELSE IF loop.ends = "error"
        THEN [session |-> finally(streaming), left_by |-> "return"]
        ELSE [session |->
                  finally([streaming EXCEPT
                               !.processor = SetAttr(@, "summary", loop.full_response)]),
              left_by |-> "return"]

\* display_text_and_summary: the session it leaves; how the script leaves it
\* (return, exception, st.rerun()); and the stream of the generation branch
\* when that branch was taken
KnowlEdgeApp_display_text_and_summary(ss, stream, regenerate) ==
    LET counted == [ss EXCEPT !.processor = EstimateTokens(@)]
    IN  IF ~Truthy(counted.processor, "summary") /\ ~counted.summary_in_progress
        THEN LET generated == generate_summary(counted, stream)
             IN  [session |-> generated.session, left_by |-> generated.left_by,
                  summary_stream |-> stream]
        ELSE IF Truthy(counted.processor, "summary") /\ regenerate
        THEN [session |-> [counted EXCEPT !.processor = SetNone(@, "summary"),
                                          !.summary_in_progress = FALSE],
              left_by |-> "rerun"]
        ELSE [session |-> counted, left_by |-> "return"]

\* display_suggested_questions
KnowlEdgeApp_display_suggested_questions(ss, reply, clicked) ==
    IF ~Truthy(ss.processor, "suggested_questions") /\ IsRaise(reply) THEN ss
    ELSE LET ss1 == IF ~Truthy(ss.processor, "suggested_questions")
                    THEN [ss EXCEPT !.processor =
                                        SetAttr(@, "suggested_questions", reply.value)]
                    ELSE ss
             questions == ss1.processor.suggested_questions
         IN  IF clicked \in 0..(Len(questions) - 1) /\ questions[clicked + 1] # <<>>
             THEN [SetAttr(ss1, "current_question", questions[clicked + 1])
                      EXCEPT !.needs_answer = TRUE]
             ELSE ss1

\* _handle_question: the messages of the processor afterwards
KnowlEdgeApp__handle_question(messages, question, relevant_chunks, stream) ==
    LET asked == Append(messages, Message("user", question))
        loop == consume(stream, 1, <<>>)
    IN  IF IsRaise(relevant_chunks) THEN asked
        ELSE IF loop.ends = "raised" \/ UnboundResponse(loop) THEN asked
        ELSE IF loop.ends = "error" THEN asked
        ELSE Append(asked, Message("assistant", loop.full_response))

\* handle_chat_interaction that forgets the pending question only once it has
\* been answered
KnowlEdgeApp_handle_chat_interaction_until_answered(ss, prompt, relevant_chunks, stream) ==
    IF ss.needs_answer /\ Truthy(ss, "current_question")
    THEN LET before == ss.processor.messages
             after == KnowlEdgeApp__handle_question(
                          before, ss.current_question, relevant_chunks, stream)
             asked == [ss EXCEPT !.processor.messages = after]
         IN  [session |->
                  IF Len(after) = Len(before) + 2
                  THEN SetNone([asked EXCEPT !.needs_answer = FALSE],
                               "current_question")
                  ELSE asked,
              rerun |-> TRUE, question |-> ss.current_question, stream |-> stream,
              relevant_chunks |-> relevant_chunks]
    ELSE IF prompt # <<>>
    THEN [session |-> [ss EXCEPT !.processor.messages =
                                     KnowlEdgeApp__handle_question(
                                         @, prompt, relevant_chunks, stream)],
          rerun |-> FALSE, question |-> prompt, stream |-> stream,
          relevant_chunks |-> relevant_chunks]
    ELSE [session |-> ss, rerun |-> FALSE]

\* handle_chat_interaction
KnowlEdgeApp_handle_chat_interaction(ss, prompt, relevant_chunks, stream) ==
    IF ss.needs_answer /\ Truthy(ss, "current_question")
    THEN [session |->
              SetNone([ss EXCEPT !.processor.messages =
                                     KnowlEdgeApp__handle_question(
                                         @, ss.current_question, relevant_chunks, stream),
                                 !.needs_answer = FALSE],
                      "current_question"),
          rerun |-> TRUE, question |-> ss.current_question, stream |-> stream,
          relevant_chunks |-> relevant_chunks]
    ELSE IF prompt # <<>>
    THEN [session |-> [ss EXCEPT !.processor.messages =
                                     KnowlEdgeApp__handle_question(
                                         @, prompt, relevant_chunks, stream)],
          rerun |-> FALSE, question |-> prompt, stream |-> stream,
          relevant_chunks |-> relevant_chunks]
    ELSE [session |-> ss, rerun |-> FALSE]

\* what processor.get_relevant_chunks does: chunks of the document, or an error
SampleRetrievals == {Return(<<Str("chunk")>>), Raise("RuntimeError")}

------------------------------------------------------------------------------
(* A browser session of a front end: the user's actions and the script runs *)

Apps == {"knowlEDGE", "app"}

\* the processor of app.py, the session itself of knowlEDGE.py
Holder(ss) == IF script.app = "knowlEDGE" THEN ss ELSE ss.processor

\* the locals a run leaves behind to be looked at
Locals == {"question", "stream", "relevant_chunks", "summary_stream", "left_by"}

\* the script is at rest and the page shows what its last run has drawn
Idle == script.at = "idle" /\ ~script.rerun

\* a run of the script starts: the locals of the last run are gone, nothing
\* is drawn yet, the widgets hold what the user did
StartRun(clicked, prompt, regenerate) ==
    [a \in DOMAIN script \ Locals |->
        IF a = "at" THEN "initialize_session_state"
        ELSE IF a = "clicked" THEN clicked
        ELSE IF a = "prompt" THEN prompt
        ELSE IF a = "regenerate" THEN regenerate
        ELSE IF a \in {"rerun", "questions_shown", "chat_shown", "regenerate_shown"}
        THEN FALSE
        ELSE script[a]]

\* the script moves on, with the locals the step leaves and what it has drawn
Leave(step, locals) ==
    script' = [a \in DOMAIN script \cup DOMAIN locals |->
                  IF a = "at" THEN step
                  ELSE IF a \in DOMAIN locals THEN locals[a]
                  ELSE script[a]]
Goto(step) == Leave(step, <<>>)
AtStep(app, step) == script.app = app /\ script.at = step

\* the user puts a file into the uploader, or another file
UserUploads ==
    /\ Idle
    /\ \E f \in SampleFiles :
           /\ (IF IsNone(script, "uploaded_file") THEN TRUE
               ELSE script.uploaded_file # f)
           /\ script' = SetAttr(StartRun(-1, <<>>, FALSE), "uploaded_file", f)
    /\ UNCHANGED <<session_state, requestVars, callVars>>

\* the user takes the file out of the uploader
UserRemovesFile ==
    /\ Idle
    /\ ~IsNone(script, "uploaded_file")
    /\ script' = SetNone(StartRun(-1, <<>>, FALSE), "uploaded_file")
    /\ UNCHANGED <<session_state, requestVars, callVars>>

\* the user clicks the button of a suggested question
UserClicksQuestion ==
    /\ Idle
    /\ script.questions_shown
    /\ Len(Holder(session_state).messages) + 2 <= MaxMessages
    /\ \E i \in 0..(Len(Holder(session_state).suggested_questions) - 1) :
           /\ Holder(session_state).suggested_questions[i + 1] # <<>>
           /\ script' = StartRun(i, <<>>, FALSE)
    /\ UNCHANGED <<session_state, requestVars, callVars>>

\* the user submits a question in the chat input
UserAsks ==
    /\ Idle
    /\ script.chat_shown
    /\ Len(Holder(session_state).messages) + 2 <= MaxMessages
    /\ \E prompt \in SamplePrompts : script' = StartRun(-1, prompt, FALSE)
    /\ UNCHANGED <<session_state, requestVars, callVars>>

\* the user clicks "Regenerate Summary" (app.py)
UserRegenerates ==
    /\ Idle
    /\ script.regenerate_shown
    /\ script' = StartRun(-1, <<>>, TRUE)
    /\ UNCHANGED <<session_state, requestVars, callVars>>

\* the script runs again: after st.rerun(), on page load, or on an action of
\* the user that changes no widget the script reads
Rerun ==
    /\ script.at = "idle"
    /\ script' = StartRun(-1, <<>>, FALSE)
    /\ UNCHANGED <<session_state, requestVars, callVars>>

\* knowlEDGE.py line 294
Run_initialize_session_state ==
    /\ AtStep("knowlEDGE", "initialize_session_state")
    /\ session_state' = initialize_session_state(session_state)
    /\ Goto("handle_file_upload")
    /\ UNCHANGED <<requestVars, callVars>>

\* knowlEDGE.py lines 296-299
Run_handle_file_upload ==
    /\ AtStep("knowlEDGE", "handle_file_upload")
    /\ session_state' = handle_file_upload(session_state, script)
    /\ IF Truthy(session_state', "document_text")
       THEN Goto("display_text_and_summary")
       ELSE Goto("idle")
    /\ UNCHANGED <<requestVars, callVars>>

\* knowlEDGE.py line 302
Run_display_text_and_summary ==
    /\ AtStep("knowlEDGE", "display_text_and_summary")
    /\ \E stream \in KnowlEdgeStreams(session_state.document_text) :
           session_state' = display_text_and_summary(session_state, stream)
    /\ Goto("display_suggested_questions")
    /\ UNCHANGED <<requestVars, callVars>>

\* knowlEDGE.py line 305
Run_display_suggested_questions ==
    /\ AtStep("knowlEDGE", "display_suggested_questions")
    /\ \E reply \in SampleQuestionReplies :
           session_state' =
               display_suggested_questions(session_state, reply, script.clicked)
    /\ Leave("handle_chat_interaction", [questions_shown |-> TRUE])
    /\ UNCHANGED <<requestVars, callVars>>

\* the script leaves handle_chat_interaction; the chat input is drawn unless
\* st.rerun() has ended the run before
LeaveChat(outcome) ==
    Leave("idle", [a \in (DOMAIN outcome \ {"session"}) \cup {"chat_shown"} |->
                      IF a = "chat_shown" THEN ~outcome.rerun ELSE outcome[a]])

\* knowlEDGE.py line 308
Run_handle_chat_interaction ==
    /\ AtStep("knowlEDGE", "handle_chat_interaction")
    /\ \E stream \in KnowlEdgeStreams(IF Truthy(session_state, "current_question")
                                      THEN session_state.current_question
                                      ELSE script.prompt) :
           LET outcome == handle_chat_interaction(session_state, script.prompt, stream)
           IN  /\ session_state' = outcome.session
               /\ LeaveChat(outcome)
    /\ UNCHANGED <<requestVars, callVars>>

\* app.py lines 281-282
Run_KnowlEdgeApp_initialize_session_state ==
    /\ AtStep("app", "initialize_session_state")
    /\ session_state' = KnowlEdgeApp_initialize_session_state(session_state)
    /\ Goto("select_model")
    /\ UNCHANGED <<requestVars, callVars>>

\* app.py lines 285-294: without a model the run ends here
Run_KnowlEdgeApp_select_model ==
    /\ AtStep("app", "select_model")
    /\ \E available_models \in {<<>>, <<"llama3.2">>} :
           IF available_models # <<>>
           THEN /\ session_state' =
                       SetAttr(session_state, "selected_model", available_models[1])
                /\ Goto("handle_file_upload")
           ELSE /\ UNCHANGED session_state
                /\ Goto("idle")
    /\ UNCHANGED <<requestVars, callVars>>

\* app.py lines 297-307
Run_KnowlEdgeApp_handle_file_upload ==
    /\ AtStep("app", "handle_file_upload")
    /\ session_state' = KnowlEdgeApp_handle_file_upload(session_state, script)
    /\ IF Truthy(session_state'.processor, "document_text")
          /\ ~IsNone(session_state', "selected_model")
       THEN Goto("display_text_and_summary")
       ELSE Goto("idle")
    /\ UNCHANGED <<requestVars, callVars>>

\* app.py lines 310-312
Run_KnowlEdgeApp_display_text_and_summary ==
    /\ AtStep("app", "display_text_and_summary")
    /\ \E stream \in AppStreams(session_state.processor.document_text) :
           /\ session_state.update_counter + Len(stream.chunks) <= MaxUpdateCounter
           /\ LET outcome == KnowlEdgeApp_display_text_and_summary(
                                 session_state, stream, script.regenerate)
                  shown == Truthy(outcome.session.processor, "summary")
                  locals == [a \in (DOMAIN outcome \ {"session"})
                                       \cup {"rerun", "regenerate_shown"} |->
                                IF a = "rerun" THEN outcome.left_by = "rerun"
                                ELSE IF a = "regenerate_shown"
                                THEN shown /\ outcome.left_by = "return"
                                ELSE outcome[a]]
              IN  /\ session_state' = outcome.session
                  /\ IF outcome.left_by # "return" THEN Leave("idle", locals)
                     ELSE IF shown /\ ~outcome.session.summary_in_progress
                     THEN Leave("display_suggested_questions", locals)
                     ELSE Leave("handle_chat_interaction", locals)
    /\ UNCHANGED <<requestVars, callVars>>

\* app.py line 314
Run_KnowlEdgeApp_display_suggested_questions ==
    /\ AtStep("app", "display_suggested_questions")
    /\ \E reply \in SampleQuestionReplies :
           /\ session_state' = KnowlEdgeApp_display_suggested_questions(
                                   session_state, reply, script.clicked)
           /\ Leave("handle_chat_interaction",
                    [questions_shown |->
                         Truthy(session_state'.processor, "suggested_questions")])
    /\ UNCHANGED <<requestVars, callVars>>

\* app.py line 317
Run_KnowlEdgeApp_handle_chat_interaction ==
    /\ AtStep("app", "handle_chat_interaction")
    /\ \E relevant_chunks \in SampleRetrievals,
          stream \in AppStreams(IF Truthy(session_state, "current_question")
                                THEN session_state.current_question
                                ELSE script.prompt) :
           LET outcome == KnowlEdgeApp_handle_chat_interaction(
                              session_state, script.prompt, relevant_chunks, stream)
           IN  /\ session_state' = outcome.session
               /\ LeaveChat(outcome)
    /\ UNCHANGED <<requestVars, callVars>>

\* a browser opens the page of one of the front ends: the session is empty
\* and the script is about to run for the first time
InitUI ==
    /\ session_state = [started |-> FALSE]
    /\ \E app \in Apps :
           script = [app |-> app, at |-> "idle", clicked |-> -1, prompt |-> <<>>,
                     regenerate |-> FALSE, rerun |-> TRUE, questions_shown |-> FALSE,
                     chat_shown |-> FALSE, regenerate_shown |-> FALSE]
    /\ call = NoCall /\ ret = NoRet /\ NoRequests

NextUI ==
    \/ UserUploads
    \/ UserRemovesFile
    \/ UserClicksQuestion
    \/ UserAsks
    \/ UserRegenerates
    \/ Rerun
    \/ Run_initialize_session_state
    \/ Run_handle_file_upload
    \/ Run_display_text_and_summary
    \/ Run_display_suggested_questions
    \/ Run_handle_chat_interaction
    \/ Run_KnowlEdgeApp_initialize_session_state
    \/ Run_KnowlEdgeApp_select_model
    \/ Run_KnowlEdgeApp_handle_file_upload
    \/ Run_KnowlEdgeApp_display_text_and_summary
    \/ Run_KnowlEdgeApp_display_suggested_questions
    \/ Run_KnowlEdgeApp_handle_chat_interaction

SpecUI == InitUI /\ [][NextUI]_vars

------------------------------------------------------------------------------
(* Properties of the direct calls *)

Returned(f) == call.fn = f /\ IsReturn(ret)

Max(a, b) == IF a >= b THEN a ELSE b
Min(a, b) == IF a <= b THEN a ELSE b

\* the entries of a newline-joined block, and that they are separated by newlines
Entries(str) == [k \in 1..((Len(str) + 1) \div 2) |-> str[2 * k - 1]]
Separated(str) ==
    /\ Len(str) % 2 = 1
    /\ \A k \in 1..(Len(str) \div 2) : str[2 * k] = NL[1]

Occurrences(str, tok) == Cardinality({k \in DOMAIN str : str[k] = tok})


\* C1: _in_span(w, S) is true iff one single span of S contains the word's whole
\* range [offset, offset + length]; it is false for an empty S.
C1_InSpanIffOneSpanContains ==
    Returned("_in_span") =>
        LET w == call.word.span
            S == call.spans
        IN  /\ ret.value = (\E k \in DOMAIN S :
                               /\ w.offset >= S[k].offset
                               /\ w.offset + w.length <= S[k].offset + S[k].length)
            /\ (S = <<>> => ret.value = FALSE)

\* the word lies in the union of two spans, in neither alone, and is rejected
C1_Witness ==
    /\ Returned("_in_span") /\ ret.value = FALSE
    /\ Len(call.spans) = 2
    /\ call.word.span.length = 2
    /\ call.spans[1] = Span(call.word.span.offset, 1)
    /\ call.spans[2] = Span(call.word.span.offset + 1, 1)

Flagged(res) ==
    /\ "styles" \in DOMAIN res
    /\ Len(res.styles) > 0
    /\ \E st \in Range(res.styles) :
           "is_handwritten" \in DOMAIN st /\ st.is_handwritten = TRUE

\* C2: the classification is true (the handwriting-present sentence) iff the
\* styles are non-empty and at least one is flagged is_handwritten; otherwise it
\* is false (the handwriting-absent sentence).
C2_HandwrittenIffSomeStyleFlagged ==
    /\ Returned("has_handwritten_content") => ret.value = Flagged(call.result)
    /\ Returned("check_handwritten_content") =>
           ret.value = IF Flagged(call.result)
                       THEN << <<"Document contains handwritten content">> >>
                       ELSE << <<"Document does not contain handwritten content">> >>

\* an unflagged style followed by a flagged one yields the present sentence
C2_Witness ==
    /\ Returned("check_handwritten_content")
    /\ ret.value = << <<"Document contains handwritten content">> >>
    /\ Len(call.result.styles) = 2
    /\ call.result.styles[1] = [is_handwritten |-> FALSE, confidence |-> "0.9"]
    /\ call.result.styles[2] = [is_handwritten |-> TRUE, confidence |-> "0.9"]

\* the positions in page.words of the words one span of line i contains
Matching(page, i) ==
    {j \in DOMAIN page.words :
        \E k \in DOMAIN page.lines[i].spans :
            LET w == page.words[j].span
                sp == page.lines[i].spans[k]
            IN  /\ w.offset >= sp.offset
                /\ w.offset + w.length <= sp.offset + sp.length}

\* the position among the entries of the summary of line i
RECURSIVE SummaryPos(_, _)
SummaryPos(page, i) ==
    IF i = 1 THEN 3
    ELSE SummaryPos(page, i - 1) + 1 + Cardinality(Matching(page, i - 1))

\* the t-th word of page.words, in the order of page.words, among those of line i
NthMatch(page, i, t) ==
    CHOOSE j \in Matching(page, i) :
        Cardinality({j2 \in Matching(page, i) : j2 <= j}) = t

IsLineSummary(tok) == tok[1] = "...Line # has word count, text, polygon"
IsWordEntry(tok) == tok[1] = "......Word has a confidence of"

RECURSIVE CellPos(_, _)
CellPos(table, i) ==
    IF i = 1 THEN 2 + Len(ListOf(table, "bounding_regions"))
    ELSE CellPos(table, i - 1) + 1
             + Len(ListOf(table.cells[i - 1], "bounding_regions"))

Overlap(a, b) ==
    Max(a.offset, b.offset) < Min(a.offset + a.length, b.offset + b.length)

LinesDisjoint(page) ==
    \A i, i2 \in DOMAIN page.lines :
        i # i2 =>
            \A k \in DOMAIN page.lines[i].spans, k2 \in DOMAIN page.lines[i2].spans :
                ~Overlap(page.lines[i].spans[k], page.lines[i2].spans[k2])

WellFormedPageCall ==
    /\ Returned("analyze_page")
    /\ ~IsNone(call.page, "lines")
    /\ ~IsNone(call.page, "words")

\* C10 as stated: when the spans of different lines do not overlap, every word,
\* words of length 0 included, is emitted under at most one line.
C10_EveryWordUnderAtMostOneLine ==
    (WellFormedPageCall /\ LinesDisjoint(call.page)) =>
        \A j \in DOMAIN call.page.words :
            Occurrences(ret.value, WordEntry(call.page.words[j])[1]) <= 1

\* C10 amended: when the spans of different lines do not overlap, every word of
\* length > 0 is emitted under at most one line.
C10_NonEmptyWordUnderAtMostOneLine ==
    (WellFormedPageCall /\ LinesDisjoint(call.page)) =>
        \A j \in DOMAIN call.page.words :
            call.page.words[j].span.length > 0 =>
                Occurrences(ret.value, WordEntry(call.page.words[j])[1]) <= 1

\* two adjacent lines and a word of length 1 which only the second one emits
C10_Witness ==
    /\ WellFormedPageCall /\ LinesDisjoint(call.page)
    /\ Len(call.page.lines) = 2
    /\ call.page.lines[1].spans = <<Span(0, 1)>>
    /\ call.page.lines[2].spans = <<Span(1, 1)>>
    /\ \E j \in DOMAIN call.page.words :
           /\ call.page.words[j].span = Span(1, 1)
           /\ Occurrences(ret.value, WordEntry(call.page.words[j])[1]) = 1

IsSelectionMark(tok) == tok[1] = "Selection mark is, polygon, confidence"

\* the three edge cases of analyze_page share their second and third part
NoMarksNoMarkSection(page, es) ==
    ListOf(page, "selection_marks") = <<>> =>
        /\ \A k \in DOMAIN es : ~IsSelectionMark(es[k])
        /\ Len(es) = SummaryPos(page, Len(ListOf(page, "lines")) + 1) - 1

WordlessLineKeepsSummary(page, es) ==
    \A i \in DOMAIN ListOf(page, "lines") :
        Matching(page, i) = {} =>
            LET at == SummaryPos(page, i)
            IN  /\ at \in DOMAIN es
                /\ es[at] = LineSummary(i - 1, <<>>, page.lines[i])[1]
                /\ es[at][3] = 0
                /\ (at + 1 \in DOMAIN es => ~IsWordEntry(es[at + 1]))

\* C11 as stated: a page with no lines emits only the header; a page with no
\* selection marks emits nothing for the selection-mark section; a line with
\* no matching words still emits its summary, with count 0 and no word entry.
C11_NoLinesOnlyHeader ==
    Returned("analyze_page") =>
        LET page == call.page
            es == Entries(ret.value)
        IN  /\ (~IsNone(page, "lines") /\ page.lines = <<>>) =>
                   es = <<PageHeader(page)[1], PageSize(page)[1]>>
            /\ NoMarksNoMarkSection(page, es)
            /\ WordlessLineKeepsSummary(page, es)

\* C11 amended: a page with no lines emits the header followed by nothing but
\* the entries of its selection marks (no line summary, no word entry); the
\* other two parts as stated.
C11_NoLinesHeaderThenMarks ==
    Returned("analyze_page") =>
        LET page == call.page
            es == Entries(ret.value)
            marks == ListOf(page, "selection_marks")
        IN  /\ ListOf(page, "lines") = <<>> =>
                   /\ es = <<PageHeader(page)[1], PageSize(page)[1]>>
                            \o [m \in DOMAIN marks |-> SelectionMarkEntry(marks[m])[1]]
                   /\ \A k \in DOMAIN es : ~IsLineSummary(es[k]) /\ ~IsWordEntry(es[k])
            /\ NoMarksNoMarkSection(page, es)
            /\ WordlessLineKeepsSummary(page, es)

\* a page with words and a selection mark and an empty list of lines
C11_Witness ==
    /\ Returned("analyze_page")
    /\ ~IsNone(call.page, "lines") /\ call.page.lines = <<>>
    /\ Len(ListOf(call.page, "words")) = 2
    /\ Len(ListOf(call.page, "selection_marks")) = 1
    /\ Len(Entries(ret.value)) = 3

------------------------------------------------------------------------------
(* Properties of the endpoint *)

Present == << <<"Document contains handwritten content">> >>
Absent == << <<"Document does not contain handwritten content">> >>

\* the request has the engine's result and has left get_result with the report
Reported(r) == result[r] # NoResult /\ pc[r] \in {"return", "done"}

\* the position in the joined text where block k starts
RECURSIVE StartOf(_, _)
StartOf(blocks, k) ==
    IF k = 1 THEN 1 ELSE StartOf(blocks, k - 1) + Len(blocks[k - 1]) + 1

\* str is the blocks in order with exactly one newline between neighbours
IsNewlineJoin(str, blocks) ==
    /\ Len(str) = IF blocks = <<>> THEN 0 ELSE StartOf(blocks, Len(blocks) + 1) - 2
    /\ \A k \in DOMAIN blocks :
           /\ SubSeq(str, StartOf(blocks, k), StartOf(blocks, k) + Len(blocks[k]) - 1)
                  = blocks[k]
           /\ k > 1 => str[StartOf(blocks, k) - 1] = NL[1]

\* C3: the blocks are appended in this order, the handwriting sentence, the block
\* of each page in the order of result.pages, the block of each table in the
\* order of result.tables with its 0-based index; the report is the newline-join
\* of exactly 1 + |pages| + |tables| blocks.
C3_ReportIsOrderedJoinOfBlocks ==
    \A r \in Requests :
        result[r] # NoResult =>
            LET res == result[r]
                pages == ListOf(res, "pages")
                tables == ListOf(res, "tables")
                blocks == analysis_result[r]
            IN  /\ Len(blocks) <= 1 + Len(pages) + Len(tables)
                /\ \A k \in DOMAIN blocks :
                       IF k = 1 THEN blocks[k] \in {Present, Absent}
                       ELSE IF k <= 1 + Len(pages)
                       THEN blocks[k] = analyze_page(pages[k - 1]).value
                       ELSE blocks[k] =
                                analyze_table(k - 2 - Len(pages),
                                              tables[k - 1 - Len(pages)]).value
                /\ pc[r] \in {"for_pages", "for_tables", "join"} => Len(blocks) >= 1
                /\ Reported(r) =>
                       /\ Len(blocks) = 1 + Len(pages) + Len(tables)
                       /\ IsNewlineJoin(text[r], blocks)

\* a report of two different pages and two different tables has been returned
C3_Witness ==
    \E r \in Requests :
        /\ pc[r] = "done" /\ result[r] # NoResult
        /\ result[r].pages = <<TextPage, EmptyPage>>
        /\ result[r].tables = <<EmptyTable, CellTable>>
        /\ response[r].value.text = text[r]

\* C4: the report begins with one of the two fixed sentences, verbatim, and that
\* sentence is the first block and no other.
C4_ReportBeginsWithOneSentence ==
    \A r \in Requests :
        Reported(r) =>
            /\ Len(text[r]) >= 1
            /\ text[r][1] \in {Present[1], Absent[1]}
            /\ Len(text[r]) > 1 => text[r][2] = NL[1]
            /\ Cardinality({k \in DOMAIN text[r] :
                               text[r][k] \in {Present[1], Absent[1]}}) = 1
            /\ Cardinality({k \in DOMAIN analysis_result[r] :
                               analysis_result[r][k] \in {Present, Absent}}) = 1

\* a report with the present sentence followed by a page and a table
C4_Witness ==
    \E r \in Requests :
        /\ Reported(r) /\ pc[r] = "done"
        /\ text[r][1] = Present[1]
        /\ Len(result[r].pages) = 1 /\ Len(result[r].tables) = 1

\* the latin-1 preview of the upload: one character per byte, the first 300
IsPreview(str, bytes) ==
    /\ Len(str) = Min(Len(bytes), 300)
    /\ \A i \in DOMAIN str : str[i] = <<"chr", bytes[i]>>

\* C7 as stated, for the uploads that are answered: an upload that is not valid
\* UTF-8 is answered with its latin-1 preview of at most 300 characters, not
\* with the structured report.  (The claim also says such an upload never ends
\* in an exception; C8 covers the errors that do leave the endpoint.)
C7_InvalidBytesYieldPreview ==
    \A r \in Requests :
        (pc[r] = "done" /\ ~Utf8Valid(content[r])) =>
            /\ IsPreview(response[r].value.text, content[r])
            /\ Len(response[r].value.text) <= 300

\* C7 amended: whenever get_result raises UnicodeDecodeError the endpoint raises
\* no exception and returns the latin-1 preview of the upload, at most 300
\* characters; only then is the preview returned.
C7_DecodeErrorYieldsPreview ==
    \A r \in Requests :
        /\ raised[r] = "UnicodeDecodeError" =>
               /\ pc[r] \in {"except", "return", "done"}
               /\ pc[r] \in {"return", "done"} =>
                      IsPreview(text[r], content[r]) /\ Len(text[r]) <= 300
               /\ pc[r] = "done" => response[r] = Return([text |-> text[r]])
        /\ (pc[r] = "done" /\ raised[r] # "UnicodeDecodeError") => Reported(r)

\* an upload of 301 bytes 0xE9 was answered with its first 300 characters
C7_Witness ==
    \E r \in Requests :
        /\ pc[r] = "done" /\ raised[r] = "UnicodeDecodeError"
        /\ Len(content[r]) = 301 /\ content[r][1] = 233
        /\ Len(response[r].value.text) = 300

\* C8: an error of the engine call is not caught: the request fails with it and
\* neither a report nor a preview is returned.
C8_EngineErrorPropagates ==
    \A r \in Requests :
        /\ raised[r] \in EngineErrors =>
               /\ pc[r] \in {"except", "failed"}
               /\ text[r] = <<>>
               /\ response[r] = NoRet
        /\ pc[r] = "failed" => raised[r] \notin {"", "UnicodeDecodeError"}

\* a request failed with the engine's rate-limit error after one engine call
C8_Witness ==
    \E r \in Requests :
        /\ pc[r] = "failed" /\ raised[r] = "RateLimited"
        /\ engine_calls[r] = 1 /\ response[r] = NoRet

\* no list-valued attribute of the result is None
WellFormedPage(page) ==
    {"lines", "words", "selection_marks"} \subseteq DOMAIN page
WellFormedTable(table) ==
    /\ {"bounding_regions", "cells"} \subseteq DOMAIN table
    /\ \A c \in Range(table.cells) : "bounding_regions" \in DOMAIN c
WellFormed(res) ==
    /\ {"styles", "pages", "tables"} \subseteq DOMAIN res
    /\ \A p \in Range(res.pages) : WellFormedPage(p)
    /\ \A t \in Range(res.tables) : WellFormedTable(t)

HasEmptyPart(res) ==
    \/ res.styles = <<>> \/ res.pages = <<>> \/ res.tables = <<>>
    \/ \E p \in Range(res.pages) :
           \/ p.lines = <<>> \/ p.words = <<>> \/ p.selection_marks = <<>>
           \/ \E l \in Range(p.lines) : l.spans = <<>>
    \/ \E t \in Range(res.tables) :
           \/ t.bounding_regions = <<>> \/ t.cells = <<>>
           \/ \E c \in Range(t.cells) : c.bounding_regions = <<>>

IsPageHeader(tok) == tok[1] = "----Analyzing layout from page #"
IsTableSummary(tok) == tok[1] = "Table # has rows and columns"

\* C9: a well-formed result with empty parts never makes the assembly raise; the
\* empty part renders as nothing, and with styles, pages and tables all empty the
\* report is exactly the handwriting-absent sentence.
C9_EmptyInputNeverRaises ==
    \A r \in Requests :
        (result[r] # NoResult /\ WellFormed(result[r]) /\ HasEmptyPart(result[r])) =>
            /\ raised[r] = ""
            /\ pc[r] \notin {"except", "failed"}
            /\ Reported(r) =>
                   LET res == result[r]
                   IN  /\ Cardinality({k \in DOMAIN text[r] : IsPageHeader(text[r][k])})
                              = Len(res.pages)
                       /\ Cardinality({k \in DOMAIN text[r] : IsTableSummary(text[r][k])})
                              = Len(res.tables)
                       /\ (res.styles = <<>> /\ res.pages = <<>> /\ res.tables = <<>>)
                              => text[r] = Absent
                       /\ \A i \in DOMAIN res.pages :
                              (res.pages[i].lines = <<>>
                                   /\ res.pages[i].selection_marks = <<>>)
                                  => Len(analysis_result[r][1 + i]) = 3

\* a report was returned for a result with no styles whose page has no lines, words
\* or marks and whose table has no regions or cells
C9_Witness ==
    \E r \in Requests :
        /\ pc[r] = "done" /\ result[r] # NoResult
        /\ result[r] = AnalyzeResult(<<>>, <<EmptyPage>>, <<EmptyTable>>)
        /\ Len(text[r]) = 7

------------------------------------------------------------------------------
(* Properties of the call chain *)

Rendering(r) ==
    pc[r] \in {"check_handwritten_content", "for_pages", "for_tables", "join"}
Ended(r) == pc[r] \in {"done", "failed"}

\* never a second call, and no rendering before the one call has answered
OneCallThenRender(r) ==
    /\ engine_calls[r] <= 1
    /\ (Rendering(r) \/ analysis_result[r] # <<>>) =>
           (engine_calls[r] = 1 /\ result[r] # NoResult)

\* C12 as stated: every invocation issues exactly one call of the engine and
\* renders only after it has answered; there is no second call, neither after
\* an engine error nor on the decode-failure fallback path.
C12_ExactlyOneEngineCall ==
    \A r \in Requests :
        /\ OneCallThenRender(r)
        /\ Ended(r) => engine_calls[r] = 1

\* C12 amended: every invocation whose client could be built (both settings are
\* present) issues exactly one call, every other invocation none; rendering
\* starts only after the call has answered and there is never a second call.
C12_OneEngineCallOnceClientBuilt ==
    \A r \in Requests :
        /\ OneCallThenRender(r)
        /\ Ended(r) => engine_calls[r] = (IF EnvNames \subseteq environ THEN 1 ELSE 0)
        /\ pc[r] \in {"read", "create_client", "begin_analyze_document"} =>
               engine_calls[r] = 0

\* the fallback path has been taken and answered after the single call
C12_Witness ==
    \E r \in Requests :
        /\ pc[r] = "done"
        /\ raised[r] = "UnicodeDecodeError"
        /\ engine_calls[r] = 1
        /\ Len(response[r].value.text) = 2

------------------------------------------------------------------------------
(* Properties of concurrent requests *)

\* the report of a result, rendered on its own
ReportOf(res) ==
    join(NL, <<check_handwritten_content(res)>>
             \o [k \in DOMAIN res.pages |-> analyze_page(res.pages[k]).value]
             \o [k \in DOMAIN res.tables |->
                    analyze_table(k - 1, res.tables[k]).value])

HasReport(r) == pc[r] = "done" /\ raised[r] = ""

\* C13: whatever the interleaving of the requests, the report a request gets
\* is the report of its own analysis result rendered on its own, so requests
\* with equal results get identical reports.
C13_ReportOfOwnResultOnly ==
    /\ \A r \in Requests :
           HasReport(r) => response[r] = Return([text |-> ReportOf(result[r])])
    /\ \A r1, r2 \in Requests :
           (HasReport(r1) /\ HasReport(r2) /\ result[r1] = result[r2]) =>
               response[r1] = response[r2]

\* one request has its report of a page and a table while another one, with a
\* different result, is in the middle of its rendering
C13_Witness ==
    \E r1, r2 \in Requests :
        /\ r1 # r2
        /\ HasReport(r1)
        /\ Len(result[r1].pages) = 1 /\ Len(result[r1].tables) = 1
        /\ pc[r2] = "for_tables"
        /\ Len(analysis_result[r2]) = 3
        /\ result[r2] # result[r1]

------------------------------------------------------------------------------
(* Properties of the front ends *)

Started == session_state.started

HasErrorResponse(stream) ==
    \E k \in DOMAIN stream.chunks :
        "is_error" \in DOMAIN stream.chunks[k] /\ stream.chunks[k].is_error

\* the pieces of text of a stream, in order
RECURSIVE StreamText(_)
StreamText(chunks) ==
    IF chunks = <<>> THEN <<>>
    ELSE LET c == Head(chunks)
         IN  (IF "content" \in DOMAIN c THEN c.content
              ELSE IF "message" \in DOMAIN c /\ "content" \in DOMAIN c.message
              THEN c.message.content
              ELSE <<>>)
             \o StreamText(Tail(chunks))

\* the file in the uploader is not the one the session of knowlEDGE.py records
UploadIsNew ==
    /\ AtStep("knowlEDGE", "handle_file_upload")
    /\ ~IsNone(script, "uploaded_file")
    /\ \/ IsNone(session_state, "current_file_name")
       \/ <<script.uploaded_file.name, script.uploaded_file.type,
            script.uploaded_file.bytes>>
          # <<session_state.current_file_name, session_state.current_file_type,
               session_state.current_file_bytes>>

\* C14: when handle_file_upload is called with a file that differs from the
\* recorded one, the session is reset for it: document_text is the text
\* extracted from the file, and summary, summary_generated, suggested_questions
\* and messages have their initial values.
C14_NewFileResetsSession ==
    [][UploadIsNew =>
           LET f == script.uploaded_file
               extracted == extract_text(f.name, f.type, f.bytes)
           IN  /\ IF IsNoneValue(extracted)
                  THEN IsNone(session_state', "document_text")
                  ELSE /\ ~IsNone(session_state', "document_text")
                       /\ session_state'.document_text = extracted.value
               /\ IsNone(session_state', "summary")
               /\ ~session_state'.summary_generated
               /\ IsNone(session_state', "suggested_questions")
               /\ session_state'.messages = <<>>]_vars

\* the answer is made of text about this question
IsAnswerTo(answer, question) ==
    \A k \in DOMAIN answer : answer[k][1] = "text" /\ answer[k][2] = question

\* the answer generation of the last question failed: an exception, an error
\* response, or an empty answer
GenerationFailed ==
    \/ script.stream.raises
    \/ HasErrorResponse(script.stream)
    \/ StreamText(script.stream.chunks) = <<>>
    \/ ("relevant_chunks" \in DOMAIN script /\ IsRaise(script.relevant_chunks))

\* C15: every assistant message comes right after the user message with the
\* question it answers; and when the generation of an answer has failed, the
\* user message is the last one: no assistant message was appended for it.
C15_AssistantFollowsItsQuestion ==
    Started =>
        LET messages == Holder(session_state).messages
        IN  /\ \A k \in DOMAIN messages :
                   messages[k].role = "assistant" =>
                       /\ k > 1
                       /\ messages[k - 1].role = "user"
                       /\ IsAnswerTo(messages[k].content, messages[k - 1].content)
            /\ ("question" \in DOMAIN script /\ GenerationFailed) =>
                   /\ messages # <<>>
                   /\ messages[Len(messages)] = Message("user", script.question)


\* a suggested question was clicked and handle_chat_interaction is about to run
PendingQuestion ==
    /\ script.at = "handle_chat_interaction"
    /\ session_state.needs_answer
    /\ Truthy(session_state, "current_question")

UserMessages(messages) == {k \in DOMAIN messages : messages[k].role = "user"}

CompletedWithoutError(stream) ==
    /\ ~stream.raises
    /\ stream.chunks # <<>>
    /\ ~HasErrorResponse(stream)

\* display_text_and_summary of KnowlEdgeApp is about to take the generation
\* branch (app.py line 79)
SummaryDue ==
    /\ AtStep("app", "display_text_and_summary")
    /\ ~Truthy(session_state.processor, "summary")
    /\ ~session_state.summary_in_progress

\* C17: whenever display_text_and_summary of KnowlEdgeApp is left after it
\* took the generation branch, summary_in_progress is False; processor.summary
\* is the accumulated text when the stream completed without an error
\* response; and when the stream yielded an error response, yielded nothing or
\* raised, processor.summary is left as it was, without a summary, so the
\* next run takes the generation branch again.
C17_NoPartialSummary ==
    /\ []((script.app = "app" /\ "summary_stream" \in DOMAIN script) =>
              LET stream == script.summary_stream
                  processor == session_state.processor
              IN  /\ ~session_state.summary_in_progress
                  /\ IF CompletedWithoutError(stream)
                     THEN /\ ~IsNone(processor, "summary")
                          /\ processor.summary = StreamText(stream.chunks)
                          /\ script.left_by = "return"
                     ELSE /\ ~Truthy(processor, "summary")
                          /\ script.left_by
                                 = IF stream.raises \/ stream.chunks = <<>>
                                   THEN "exception" ELSE "return")
    /\ [][SummaryDue =>
              /\ "summary_stream" \in DOMAIN script'
              /\ ~session_state'.summary_in_progress
              /\ ~CompletedWithoutError(script'.summary_stream) =>
                     /\ IsNone(session_state'.processor, "summary")
                            = IsNone(session_state.processor, "summary")
                     /\ ~IsNone(session_state.processor, "summary") =>
                            session_state'.processor.summary
                                = session_state.processor.summary]_vars

\* the generator raised after it had yielded a part of the summary
C17_Witness ==
    /\ script.app = "app"
    /\ "summary_stream" \in DOMAIN script
    /\ script.summary_stream.raises
    /\ script.summary_stream.chunks # <<>>
    /\ script.left_by = "exception"
    /\ ~session_state.summary_in_progress
    /\ IsNone(session_state.processor, "summary")
    /\ session_state.update_counter >= 1


====
